---- MODULE Spec2Model ----
(***************************************************************************)
(* Model of ml_rust/src/lib.rs: the ensemble-of-regressors and residual-   *)
(* boosting models, the model bundle, the prediction pipeline, persistence *)
(* and the C boundary of the ML prediction library.                        *)
(*                                                                         *)
(* Numbers.  The code computes in f32 and f64.  The model computes in      *)
(* fixed point over the integers, with truncation toward zero:             *)
(*   - values (intercept, base_prediction, every prediction, confidence)   *)
(*     are counted in millionths (ValueUnit per 1.0);                      *)
(*   - weights of a DecisionTree are counted in 10^-8 per feature unit     *)
(*     (WeightUnit per 1.0);                                               *)
(*   - learning_rate, targets, frame_drop and motion_intensity are counted *)
(*     in thousandths (Milli per 1.0);                                     *)
(*   - bitrate_kbps, frame_rate, resolution_width and resolution_height    *)
(*     are whole numbers.                                                  *)
(* A float that is not finite is the reserved value NaN (an f64 field) or  *)
(* Inf (an f32 input), as in IEEE 754 where they are reserved patterns.    *)
(***************************************************************************)
EXTENDS Integers, Sequences, FiniteSets, TLC

VARIABLES
  obj,     \* a model object held on its own: a forest or a boosting model
  bundle,  \* the ModelBundle the caller holds
  disk,    \* the store: what each location holds
  handle,  \* the *mut CModelBundle the host holds, or NULL
  out,     \* the PredictionResult the host's result pointer refers to
  last     \* the last call: its name, its arguments and what it returned

vars == <<obj, bundle, disk, handle, out, last>>

---------------------------------------------------------------------------
(* Fixed-point arithmetic *)

ValueUnit == 10^6
WeightUnit == 10^8
Milli == 10^3

NaN == 0 - 2^30
Inf == 2^30

Abs(x) == IF x < 0 THEN 0 - x ELSE x

Sgn(x) == IF x < 0 THEN 0 - 1 ELSE 1

\* a * b / d truncated toward zero, without leaving 32 bits on the way
MulDiv(a, b, d) ==
  Sgn(a) * Sgn(b) * ((Abs(a) \div d) * Abs(b) + ((Abs(a) % d) * Abs(b)) \div d)

RECURSIVE LongDiv(_, _, _)
LongDiv(r, den, k) ==
  IF k = 0 THEN 0
  ELSE ((r * 10) \div den) * 10^(k - 1) + LongDiv((r * 10) % den, den, k - 1)

\* num * 10^k / den truncated toward zero (den > 0), digit by digit
DivScaled(num, den, k) ==
  Sgn(num) * ((Abs(num) \div den) * 10^k + LongDiv(Abs(num) % den, den, k))

\* float addition and scaling: NaN is absorbing
FAdd(a, b) == IF a = NaN \/ b = NaN THEN NaN ELSE a + b

FMulDiv(a, b, d) == IF a = NaN \/ b = NaN THEN NaN ELSE MulDiv(a, b, d)

\* f64::max(0.0) then f64::min(hi): max and min return the other operand on NaN
ClampMax0(x) == IF x = NaN THEN 0 ELSE IF x < 0 THEN 0 ELSE x

ClampMin(x, hi) == IF x > hi THEN hi ELSE x

RECURSIVE SumSeq(_)
SumSeq(s) == IF s = <<>> THEN 0 ELSE Head(s) + SumSeq(Tail(s))

RECURSIVE FSumSeq(_)
FSumSeq(s) == IF s = <<>> THEN 0 ELSE FAdd(Head(s), FSumSeq(Tail(s)))

Min2(a, b) == IF a < b THEN a ELSE b

---------------------------------------------------------------------------
(* Data model *)

PredictionFeatures(b, w, h, fr, fd, mi) ==
  [bitrate_kbps |-> b, resolution_width |-> w, resolution_height |-> h,
   frame_rate |-> fr, frame_drop |-> fd, motion_intensity |-> mi]

DecisionTree(i, ws) == [intercept |-> i, weights |-> ws]

ZeroWeights == <<0, 0, 0, 0, 0, 0>>

\* the divisor that turns weight * feature into a value, per feature position
TermDiv ==
  <<WeightUnit \div ValueUnit, WeightUnit \div ValueUnit, WeightUnit \div ValueUnit,
    WeightUnit \div ValueUnit, (WeightUnit \div ValueUnit) * Milli,
    (WeightUnit \div ValueUnit) * Milli>>

feature_vec(f) ==
  <<f.bitrate_kbps, f.resolution_width, f.resolution_height, f.frame_rate,
    f.frame_drop, f.motion_intensity>>

\* intercept + sum over weights.zip(feature_vec) of w * f
TreePred(tree, f) ==
  LET fv == feature_vec(f)
      m == Min2(Len(tree.weights), Len(fv))
  IN FAdd(tree.intercept,
          FSumSeq([k \in 1..m |-> FMulDiv(tree.weights[k], fv[k], TermDiv[k])]))

---------------------------------------------------------------------------
(* Ordinary least squares of target against bitrate_kbps, as both train     *)
(* methods compute it.  nf = features.len(); SB and ST are the sums of the  *)
(* bitrates and of all the targets; the loop runs over                      *)
(* features.zip(targets); the target mean is ST / d, where d is nf in the   *)
(* ensemble's train and targets.len() in the boosting train.                *)

Bitrates(features) == [i \in 1..Len(features) |-> features[i].bitrate_kbps]

\* a bitrate that is not finite makes mean_bitrate, dx, cov and var not finite
HasNonFinite(features) == \E i \in 1..Len(features) : features[i].bitrate_kbps = Inf

\* nf * dx of sample i
DxN(features, i) == Len(features) * features[i].bitrate_kbps - SumSeq(Bitrates(features))

\* d * dy of sample i
DyN(targets, d, i) == d * targets[i] - SumSeq(targets)

\* cov * nf * d
CovN(features, targets, d) ==
  SumSeq([i \in 1..Min2(Len(features), Len(targets)) |->
            DxN(features, i) * DyN(targets, d, i)])

\* var * nf * nf
VarN(features, targets) ==
  SumSeq([i \in 1..Min2(Len(features), Len(targets)) |->
            DxN(features, i) * DxN(features, i)])

\* let slope = if var > 0.0 { cov / var } else { 0.0 }, in WeightUnit
OlsSlope(features, targets, d) ==
  IF HasNonFinite(features) THEN 0
  ELSE IF VarN(features, targets) > 0
       THEN MulDiv(DivScaled(CovN(features, targets, d), VarN(features, targets), 5),
                   Len(features), d)
       ELSE 0

\* sum(targets) / d, in ValueUnit
MeanTarget(targets, d) == DivScaled(SumSeq(targets), d, 3)

---------------------------------------------------------------------------
(* SimpleRandomForest *)

RfNew(n_trees) ==
  [trees |-> [i \in 1..n_trees |-> DecisionTree(0, ZeroWeights)], n_trees |-> n_trees]

\* Variation with the halving of n_trees forgotten: 1.0 + (i - n_trees) * 0.02
VariationNoHalf(i, n_trees) == 100 + 2 * i - 2 * n_trees

\* Variation centred on the middle tree: 1.0 + (i - (n_trees - 1) / 2.0) * 0.02
VariationCentred(i, n_trees) == 100 + 2 * i - (n_trees - 1)

\* variation = 1.0 + (i - n_trees / 2.0) * 0.02, in hundredths; i counts from 0
Variation(i, n_trees) == 100 + 2 * i - n_trees

\* intercept = mean_target - slope * mean_bitrate, in ValueUnit
RfIntercept(features, targets) ==
  IF HasNonFinite(features) THEN NaN
  ELSE MeanTarget(targets, Len(features))
       - MulDiv(OlsSlope(features, targets, Len(features)), SumSeq(Bitrates(features)),
                (WeightUnit \div ValueUnit) * Len(features))

RfTrainedTree(i, n_trees, slope, intercept) ==
  DecisionTree(FMulDiv(intercept, Variation(i, n_trees), 100),
               <<MulDiv(slope, Variation(i, n_trees), 100), 0, 0, 0,
                 (0 - 5) * Variation(i, n_trees) * (WeightUnit \div 100), 0>>)

\* the loop over self.trees.iter_mut().enumerate(), after the means and the slope
RfFit(self, features, targets) ==
  [self EXCEPT !.trees =
     [i \in 1..Len(self.trees) |->
        RfTrainedTree(i - 1, self.n_trees,
                      OlsSlope(features, targets, Len(features)),
                      RfIntercept(features, targets))]]

\* RfTrain with the early return testing features only
RfTrainNoTargetCheck(self, features, targets) ==
  IF features = <<>> THEN self
  ELSE RfFit(self, features, targets)

RfTrain(self, features, targets) ==
  IF features = <<>> \/ targets = <<>> THEN self
  ELSE RfFit(self, features, targets)

\* (sum / trees.len()).max(0.0).min(100.0); 0.0 / 0.0 is NaN
RfPredict(self, f) ==
  LET sum == FSumSeq([i \in 1..Len(self.trees) |-> TreePred(self.trees[i], f)])
      avg == IF Len(self.trees) = 0 \/ sum = NaN THEN NaN
             ELSE MulDiv(sum, 1, Len(self.trees))
  IN ClampMin(ClampMax0(avg), 100 * ValueUnit)

\* a value in hundredths, for the squares of r2_score
Centi(v) == MulDiv(v, 1, ValueUnit \div 100)

SsTot(features, targets) ==
  SumSeq([i \in 1..Min2(Len(features), Len(targets)) |->
            LET dy == MulDiv(DyN(targets, Len(targets), i), 1, Len(targets) * 10)
            IN dy * dy])

SsRes(self, features, targets) ==
  SumSeq([i \in 1..Min2(Len(features), Len(targets)) |->
            LET e == Centi(targets[i] * (ValueUnit \div Milli) - RfPredict(self, features[i]))
            IN e * e])

\* 1.0 - ss_res / ss_tot in ten-thousandths; 0 on empty input or ss_tot == 0.0
RfR2Score(self, features, targets) ==
  IF features = <<>> \/ targets = <<>> THEN 0
  ELSE IF SsTot(features, targets) = 0 THEN 0
  ELSE 10^4 - DivScaled(SsRes(self, features, targets), SsTot(features, targets), 4)

---------------------------------------------------------------------------
(* SimpleGradientBoosting *)

GbNew(learning_rate) == [base_prediction |-> 0, trees |-> <<>>, learning_rate |-> learning_rate]

\* weights[0] of correction unit i: slope * learning_rate * (1.0 - i * 0.1)
GbWeight(slope, learning_rate, i) == MulDiv(slope * (10 - i), learning_rate, 10 * Milli)

GbNewTrees(slope, learning_rate) ==
  [i \in 1..5 |-> DecisionTree(0, <<GbWeight(slope, learning_rate, i - 1), 0, 0, 0, 0, 0>>)]

\* GbTrain that starts from an empty trees vector on every fit
GbTrainReplacing(self, features, targets) ==
  IF features = <<>> \/ targets = <<>> THEN self
  ELSE [self EXCEPT
          !.base_prediction = MeanTarget(targets, Len(targets)),
          !.trees = GbNewTrees(OlsSlope(features, targets, Len(targets)),
                               self.learning_rate)]

GbTrain(self, features, targets) ==
  IF features = <<>> \/ targets = <<>> THEN self
  ELSE [self EXCEPT
          !.base_prediction = MeanTarget(targets, Len(targets)),
          !.trees = self.trees \o GbNewTrees(OlsSlope(features, targets, Len(targets)),
                                             self.learning_rate)]

\* GbPredict with pred starting at 0.0 instead of base_prediction
GbPredictNoBase(self, f) ==
  ClampMax0(FSumSeq([i \in 1..Len(self.trees) |->
                       FMulDiv(TreePred(self.trees[i], f), self.learning_rate, Milli)]))

\* base_prediction + sum of learning_rate * tree_pred, then .max(0.0)
GbPredict(self, f) ==
  ClampMax0(FAdd(self.base_prediction,
                 FSumSeq([i \in 1..Len(self.trees) |->
                            FMulDiv(TreePred(self.trees[i], f), self.learning_rate, Milli)])))

---------------------------------------------------------------------------
(* ModelBundle and the default pre-training *)

ModelBundleNew ==
  [version |-> "1.0.0", vmaf_model |-> RfNew(10), psnr_model |-> RfNew(10),
   cost_model |-> GbNew(100), co2_model |-> GbNew(100)]

synthetic_features ==
  <<PredictionFeatures(1000, 1280, 720, 30, 10, 500),
    PredictionFeatures(2500, 1920, 1080, 30, 5, 600),
    PredictionFeatures(5000, 3840, 2160, 60, 2, 700)>>

vmaf_targets == <<75000, 85000, 92000>>

psnr_targets == <<35000, 38000, 42000>>

cost_targets == <<50, 120, 300>>

co2_targets == <<10, 25, 60>>

create_default_model ==
  [version |-> ModelBundleNew.version,
   vmaf_model |-> RfTrain(ModelBundleNew.vmaf_model, synthetic_features, vmaf_targets),
   psnr_model |-> RfTrain(ModelBundleNew.psnr_model, synthetic_features, psnr_targets),
   cost_model |-> GbTrain(ModelBundleNew.cost_model, synthetic_features, cost_targets),
   co2_model |-> GbTrain(ModelBundleNew.co2_model, synthetic_features, co2_targets)]

---------------------------------------------------------------------------
(* The prediction pipeline *)

\* calculate_confidence with the else-if branch on predicted_vmaf < 60.0 left out
calculate_confidence_no_penalty(features, predicted_vmaf) ==
  LET base == 8 * (ValueUnit \div 10)
      byDrop == IF features.frame_drop < 10 THEN ValueUnit \div 10
                ELSE IF features.frame_drop > 50 THEN 0 - 2 * (ValueUnit \div 10)
                ELSE 0
      byVmaf == IF predicted_vmaf > 80 * ValueUnit THEN 5 * (ValueUnit \div 100)
                ELSE 0
  IN ClampMin(ClampMax0(base + byDrop + byVmaf), ValueUnit)

\* 0.8, +0.1 / -0.2 on frame_drop, +0.05 / -0.1 on predicted_vmaf, clamped to [0, 1]
calculate_confidence(features, predicted_vmaf) ==
  LET base == 8 * (ValueUnit \div 10)
      byDrop == IF features.frame_drop < 10 THEN ValueUnit \div 10
                ELSE IF features.frame_drop > 50 THEN 0 - 2 * (ValueUnit \div 10)
                ELSE 0
      byVmaf == IF predicted_vmaf > 80 * ValueUnit THEN 5 * (ValueUnit \div 100)
                ELSE IF predicted_vmaf < 60 * ValueUnit THEN 0 - (ValueUnit \div 10)
                ELSE 0
  IN ClampMin(ClampMax0(base + byDrop + byVmaf), ValueUnit)

\* (pixels as f32 * frame_rate * 0.07) as u32; the records of the model keep
\* width * height far below 2^32, where the u32 product would overflow
base_bitrate(features) ==
  MulDiv(features.resolution_width * features.resolution_height * features.frame_rate, 7, 100)

\* recommend_bitrate that leaves the bitrate unscaled for a costly stream
recommend_bitrate_by_cost(features, predicted_vmaf, cost) ==
  IF cost > ValueUnit \div 20 THEN base_bitrate(features)
  ELSE IF predicted_vmaf < 70 * ValueUnit THEN MulDiv(base_bitrate(features), 13, 10)
  ELSE IF predicted_vmaf > 90 * ValueUnit THEN MulDiv(base_bitrate(features), 9, 10)
  ELSE base_bitrate(features)

\* (base_bitrate as f32 * 1.3) as u32, (base_bitrate as f32 * 0.9) as u32, or
\* base_bitrate; _cost is not read
recommend_bitrate(features, predicted_vmaf, cost) ==
  IF predicted_vmaf < 70 * ValueUnit THEN MulDiv(base_bitrate(features), 13, 10)
  ELSE IF predicted_vmaf > 90 * ValueUnit THEN MulDiv(base_bitrate(features), 9, 10)
  ELSE base_bitrate(features)

predict(features, model) ==
  [predicted_vmaf |-> RfPredict(model.vmaf_model, features),
   predicted_psnr |-> RfPredict(model.psnr_model, features),
   predicted_cost_usd |-> GbPredict(model.cost_model, features),
   predicted_co2_kg |-> GbPredict(model.co2_model, features),
   confidence |-> calculate_confidence(features, RfPredict(model.vmaf_model, features)),
   recommended_bitrate_kbps |->
     recommend_bitrate(features, RfPredict(model.vmaf_model, features),
                       GbPredict(model.cost_model, features))]

\* retrain that trains a new bundle on the supplied data
retrain_trains(features, targets_vmaf, targets_psnr, targets_cost, targets_co2) ==
  [version |-> ModelBundleNew.version,
   vmaf_model |-> RfTrain(ModelBundleNew.vmaf_model, features, targets_vmaf),
   psnr_model |-> RfTrain(ModelBundleNew.psnr_model, features, targets_psnr),
   cost_model |-> GbTrain(ModelBundleNew.cost_model, features, targets_cost),
   co2_model |-> GbTrain(ModelBundleNew.co2_model, features, targets_co2)]

retrain(features, targets_vmaf, targets_psnr, targets_cost, targets_co2) ==
  create_default_model

---------------------------------------------------------------------------
(* Persistence.  A location of the store is absent, a directory (it exists, *)
(* but it can neither be read nor written as a file), a file behind a       *)
(* directory that denies search (it holds data, but its metadata cannot be  *)
(* queried, so Path::exists() is false), or a file holding text: text that  *)
(* is no JSON ("garbage"), or a JSON document.  A JSON number is            *)
(* [num |-> x]; serde_json writes a float that is not finite as null and    *)
(* refuses to read null as an f64.                                          *)

JNum(x) == [num |-> x]

JNull == [null |-> TRUE]

IsNum(j) == "num" \in DOMAIN j

SerF64(x) == IF x = NaN THEN JNull ELSE JNum(x)

SerTree(t) ==
  [intercept |-> SerF64(t.intercept),
   weights |-> [k \in 1..Len(t.weights) |-> SerF64(t.weights[k])]]

SerTrees(trees) == [i \in 1..Len(trees) |-> SerTree(trees[i])]

SerRf(m) == [trees |-> SerTrees(m.trees), n_trees |-> JNum(m.n_trees)]

SerGb(m) ==
  [base_prediction |-> SerF64(m.base_prediction), trees |-> SerTrees(m.trees),
   learning_rate |-> SerF64(m.learning_rate)]

\* serde_json::to_string_pretty(model)
to_string_pretty(model) ==
  [version |-> model.version,
   vmaf_model |-> SerRf(model.vmaf_model), psnr_model |-> SerRf(model.psnr_model),
   cost_model |-> SerGb(model.cost_model), co2_model |-> SerGb(model.co2_model)]

BundleFields == {"version", "vmaf_model", "psnr_model", "cost_model", "co2_model"}

TreesParse(trees) ==
  \A i \in 1..Len(trees) :
    /\ IsNum(trees[i].intercept)
    /\ \A k \in 1..Len(trees[i].weights) : IsNum(trees[i].weights[k])

RfParses(j) == TreesParse(j.trees) /\ IsNum(j.n_trees)

GbParses(j) == IsNum(j.base_prediction) /\ TreesParse(j.trees) /\ IsNum(j.learning_rate)

\* whether serde_json::from_str::<ModelBundle> accepts the document
DocParses(doc) ==
  /\ BundleFields \subseteq DOMAIN doc
  /\ RfParses(doc.vmaf_model) /\ RfParses(doc.psnr_model)
  /\ GbParses(doc.cost_model) /\ GbParses(doc.co2_model)

DeTrees(trees) ==
  [i \in 1..Len(trees) |->
     DecisionTree(trees[i].intercept.num,
                  [k \in 1..Len(trees[i].weights) |-> trees[i].weights[k].num])]

DeRf(j) == [trees |-> DeTrees(j.trees), n_trees |-> j.n_trees.num]

DeGb(j) ==
  [base_prediction |-> j.base_prediction.num, trees |-> DeTrees(j.trees),
   learning_rate |-> j.learning_rate.num]

\* the ModelBundle serde_json::from_str builds from a document it accepts
from_str(doc) ==
  [version |-> doc.version,
   vmaf_model |-> DeRf(doc.vmaf_model), psnr_model |-> DeRf(doc.psnr_model),
   cost_model |-> DeGb(doc.cost_model), co2_model |-> DeGb(doc.co2_model)]

Absent == [kind |-> "absent"]

Directory == [kind |-> "directory"]

Garbage == [kind |-> "garbage"]

Unreachable == [kind |-> "unreachable"]

JsonFile(doc) == [kind |-> "json", doc |-> doc]

Ok(m) == [tag |-> "Ok", model |-> m]

Err(msg) == [tag |-> "Err", msg |-> msg]

\* load_model returning an untrained bundle when the file does not exist
load_model_untrained(store, path) ==
  IF store[path].kind \in {"absent", "unreachable"} THEN Ok(ModelBundleNew)
  ELSE IF store[path].kind = "directory" THEN Err("Failed to read model file")
  ELSE IF store[path].kind = "garbage" THEN Err("Failed to parse model")
  ELSE IF DocParses(store[path].doc) THEN Ok(from_str(store[path].doc))
  ELSE Err("Failed to parse model")

\* load_model(path) against the store; Path::exists() is false both for a
\* location that holds nothing and for one whose metadata cannot be queried
load_model(store, path) ==
  IF store[path].kind \in {"absent", "unreachable"} THEN Ok(create_default_model)
  ELSE IF store[path].kind = "directory" THEN Err("Failed to read model file")
  ELSE IF store[path].kind = "garbage" THEN Err("Failed to parse model")
  ELSE IF DocParses(store[path].doc) THEN Ok(from_str(store[path].doc))
  ELSE Err("Failed to parse model")

\* whether fs::write(path, json) succeeds: not onto a directory, and not
\* behind a directory that denies search
CanWrite(store, path) == store[path].kind \notin {"directory", "unreachable"}

\* the Result of save_model(model, path)
save_model_result(store, model, path) ==
  IF CanWrite(store, path) THEN "Ok" ELSE "Failed to write model file"

\* the store after save_model(model, path)
save_model_store(store, model, path) ==
  IF CanWrite(store, path)
  THEN [store EXCEPT ![path] = JsonFile(to_string_pretty(model))]
  ELSE store

---------------------------------------------------------------------------
(* The C boundary.  A path argument is NULL, a C string that is not UTF-8,  *)
(* or a C string naming a location.                                         *)

DefaultPath == "./ml_models/model.json"

CNull == [kind |-> "null"]

CNotUtf8 == [kind |-> "bytes"]

CStr(p) == [kind |-> "str", str |-> p]

\* CStr::from_ptr(path).to_str().unwrap_or(DefaultPath), and DefaultPath for NULL
path_str(path) == IF path.kind = "str" THEN path.str ELSE DefaultPath

NullPtr == [null |-> TRUE]

\* Box::into_raw(Box::new(CModelBundle { inner }))
Box(inner) == [null |-> FALSE, inner |-> inner]

\* ml_load_model handing the load error on as a null pointer
ml_load_model_failing(store, path) ==
  IF load_model(store, path_str(path)).tag = "Ok"
  THEN Box(load_model(store, path_str(path)).model)
  ELSE NullPtr

\* the pointer ml_load_model returns
ml_load_model(store, path) ==
  IF load_model(store, path_str(path)).tag = "Ok"
  THEN Box(load_model(store, path_str(path)).model)
  ELSE Box(create_default_model)

\* ml_predict with the null check of result forgotten
ml_predict_status_unchecked_result(model_null, features_null, result_null) ==
  IF model_null \/ features_null THEN 0 - 1 ELSE 0

\* the status ml_predict returns
ml_predict_status(model_null, features_null, result_null) ==
  IF model_null \/ features_null \/ result_null THEN 0 - 1 ELSE 0

---------------------------------------------------------------------------
(* Inputs *)

MaxTrees == 3
MaxFits == 2

\* a feature record whose bitrate is f32::INFINITY
InfFeatures == PredictionFeatures(Inf, 1280, 720, 30, 10, 500)

Prefixes(s) == {SubSeq(s, 1, n) : n \in 0..Len(s)}

\* feature sequences handed to train
TrainFeatures == Prefixes(synthetic_features) \cup {<<InfFeatures>>}

QualityTargets == Prefixes(vmaf_targets)

CostTargets == Prefixes(cost_targets)

\* feature records handed to predict
PredictFeatureSet ==
  {synthetic_features[1], synthetic_features[2], synthetic_features[3],
   PredictionFeatures(1000, 1, 1, 1, 0, 500),
   PredictionFeatures(0, 640, 360, 30, 60, 500),
   PredictionFeatures(8000, 1920, 1080, 60, 0, 500)}

\* feature records, predicted VMAF values and cost values handed to
\* recommend_bitrate directly
RecommendFeatureSet ==
  PredictFeatureSet \cup {PredictionFeatures(2500, 1920, 1080, 30, 10, 500)}

VmafValues ==
  {65 * ValueUnit, 70 * ValueUnit, 85 * ValueUnit, 90 * ValueUnit, 95 * ValueUnit}

CostValues == {0, ValueUnit \div 10}

\* base values of a SimpleGradientBoosting built as a struct or deserialized
BaseValues == {0 - 50000, 0, 156666}

Locations == {DefaultPath, "/tmp/test_model.json"}

\* a JSON document of a bundle with the co2_model field left out
MissingFieldDoc ==
  [version |-> ModelBundleNew.version,
   vmaf_model |-> SerRf(ModelBundleNew.vmaf_model),
   psnr_model |-> SerRf(ModelBundleNew.psnr_model),
   cost_model |-> SerGb(ModelBundleNew.cost_model)]

\* a JSON document written by another program: every field present and of the
\* right type, "n_trees": 10 next to "trees": [] in vmaf_model
ForeignDoc ==
  [to_string_pretty(ModelBundleNew) EXCEPT !.vmaf_model.trees = <<>>]

\* what a location may hold before the program runs
InitialFiles ==
  {Absent, Directory, Garbage, Unreachable, JsonFile(MissingFieldDoc), JsonFile(ForeignDoc)}

NoResult ==
  [written |-> FALSE,
   value |-> [predicted_vmaf |-> 0, predicted_psnr |-> 0, predicted_cost_usd |-> 0,
              predicted_co2_kg |-> 0, confidence |-> 0, recommended_bitrate_kbps |-> 0]]

Start == [op |-> "start"]

---------------------------------------------------------------------------
(* The two model families on their own.  obj is the one model object the    *)
(* caller holds: a SimpleRandomForest from new(n), or a                     *)
(* SimpleGradientBoosting with no trees yet (from new(0.1), or built as a   *)
(* struct or deserialized with another base_prediction).                    *)

Forest(m) == [family |-> "forest", self |-> m]

Boosting(m) == [family |-> "boosting", self |-> m]

InitFit ==
  /\ obj \in {Forest(RfNew(n)) : n \in 0..MaxTrees}
            \cup {Boosting([GbNew(100) EXCEPT !.base_prediction = b]) : b \in BaseValues}
  /\ bundle = ModelBundleNew
  /\ disk = [l \in Locations |-> Absent]
  /\ handle = NullPtr
  /\ out = NoResult
  /\ last = Start

RfTrainStep ==
  \E features \in TrainFeatures, targets \in QualityTargets :
    /\ obj.family = "forest"
    /\ obj' = Forest(RfTrain(obj.self, features, targets))
    /\ last' = [op |-> "train", features |-> features, targets |-> targets]
    /\ UNCHANGED <<bundle, disk, handle, out>>

RfPredictStep ==
  \E features \in PredictFeatureSet :
    /\ obj.family = "forest"
    /\ last' = [op |-> "predict", features |-> features,
                result |-> RfPredict(obj.self, features)]
    /\ UNCHANGED <<obj, bundle, disk, handle, out>>

RfR2Step ==
  \E features \in TrainFeatures \ {<<InfFeatures>>}, targets \in QualityTargets :
    /\ obj.family = "forest"
    /\ last' = [op |-> "r2_score", features |-> features, targets |-> targets,
                result |-> RfR2Score(obj.self, features, targets)]
    /\ UNCHANGED <<obj, bundle, disk, handle, out>>

GbTrainStep ==
  \E features \in TrainFeatures, targets \in CostTargets :
    /\ obj.family = "boosting"
    /\ Len(obj.self.trees) < 5 * MaxFits
    /\ obj' = Boosting(GbTrain(obj.self, features, targets))
    /\ last' = [op |-> "train", features |-> features, targets |-> targets]
    /\ UNCHANGED <<bundle, disk, handle, out>>

GbPredictStep ==
  \E features \in PredictFeatureSet :
    /\ obj.family = "boosting"
    /\ last' = [op |-> "predict", features |-> features,
                result |-> GbPredict(obj.self, features)]
    /\ UNCHANGED <<obj, bundle, disk, handle, out>>

NextFit == RfTrainStep \/ RfPredictStep \/ RfR2Step \/ GbTrainStep \/ GbPredictStep

SpecFit == InitFit /\ [][NextFit]_vars

---------------------------------------------------------------------------
(* The bundle and the store: new, retrain, the caller's own training of the *)
(* bundle's VMAF model, predict, r2_score, save_model, load_model and the   *)
(* removal of a file.                                                       *)

\* what the caller hands to retrain
RetrainInputs ==
  {<<<<>>, <<>>, <<>>, <<>>, <<>>>>,
   <<synthetic_features, vmaf_targets, psnr_targets, cost_targets, co2_targets>>,
   <<SubSeq(synthetic_features, 1, 2), vmaf_targets, <<>>, <<50>>, co2_targets>>}

Init ==
  /\ obj = Forest(RfNew(0))
  /\ bundle = ModelBundleNew
  /\ disk \in [Locations -> InitialFiles]
  /\ handle = NullPtr
  /\ out = NoResult
  /\ last = Start

NewStep ==
  /\ bundle' = ModelBundleNew
  /\ last' = [op |-> "new"]
  /\ UNCHANGED <<obj, disk, handle, out>>

RetrainStep ==
  \E in \in RetrainInputs :
    /\ bundle' = retrain(in[1], in[2], in[3], in[4], in[5])
    /\ last' = [op |-> "retrain", features |-> in[1], targets_vmaf |-> in[2],
                targets_psnr |-> in[3], targets_cost |-> in[4], targets_co2 |-> in[5]]
    /\ UNCHANGED <<obj, disk, handle, out>>

TrainVmafStep ==
  /\ bundle' = [bundle EXCEPT !.vmaf_model = RfTrain(@, <<InfFeatures>>, vmaf_targets)]
  /\ last' = [op |-> "train", features |-> <<InfFeatures>>, targets |-> vmaf_targets]
  /\ UNCHANGED <<obj, disk, handle, out>>

PredictStep ==
  \E features \in PredictFeatureSet :
    /\ last' = [op |-> "predict", features |-> features,
                result |-> predict(features, bundle)]
    /\ UNCHANGED <<obj, bundle, disk, handle, out>>

R2Step ==
  \/ /\ last' = [op |-> "r2_score", model |-> "vmaf_model",
                 result |-> RfR2Score(bundle.vmaf_model, synthetic_features, vmaf_targets)]
     /\ UNCHANGED <<obj, bundle, disk, handle, out>>
  \/ /\ last' = [op |-> "r2_score", model |-> "psnr_model",
                 result |-> RfR2Score(bundle.psnr_model, synthetic_features, psnr_targets)]
     /\ UNCHANGED <<obj, bundle, disk, handle, out>>

SaveStep ==
  \E path \in Locations :
    /\ disk' = save_model_store(disk, bundle, path)
    /\ last' = [op |-> "save_model", path |-> path,
                result |-> save_model_result(disk, bundle, path)]
    /\ UNCHANGED <<obj, bundle, handle, out>>

LoadStep ==
  \E path \in Locations :
    /\ last' = [op |-> "load_model", path |-> path, result |-> load_model(disk, path)]
    /\ bundle' = IF load_model(disk, path).tag = "Ok" THEN load_model(disk, path).model
                 ELSE bundle
    /\ UNCHANGED <<obj, disk, handle, out>>

\* std::fs::remove_file(path): removes a file, fails on a directory
RemoveFileStep ==
  \E path \in Locations :
    /\ disk[path].kind \in {"json", "garbage"}
    /\ disk' = [disk EXCEPT ![path] = Absent]
    /\ last' = [op |-> "remove_file", path |-> path]
    /\ UNCHANGED <<obj, bundle, handle, out>>

Next ==
  \/ NewStep \/ RetrainStep \/ TrainVmafStep \/ PredictStep \/ R2Step
  \/ SaveStep \/ LoadStep \/ RemoveFileStep

Spec == Init /\ [][Next]_vars

---------------------------------------------------------------------------
(* The prediction pipeline on its own: predict on a bundle that is untrained *)
(* or pre-trained, and recommend_bitrate called directly, as                 *)
(* test_bitrate_recommendation calls it.                                     *)

InitPipe ==
  /\ obj = Forest(RfNew(0))
  /\ bundle \in {ModelBundleNew, create_default_model}
  /\ disk = [l \in Locations |-> Absent]
  /\ handle = NullPtr
  /\ out = NoResult
  /\ last = Start

RecommendBitrateStep ==
  \E features \in RecommendFeatureSet, predicted_vmaf \in VmafValues, cost \in CostValues :
    /\ last' = [op |-> "recommend_bitrate", features |-> features,
                predicted_vmaf |-> predicted_vmaf, cost |-> cost,
                result |-> recommend_bitrate(features, predicted_vmaf, cost)]
    /\ UNCHANGED <<obj, bundle, disk, handle, out>>

NextPipe == PredictStep \/ RecommendBitrateStep

SpecPipe == InitPipe /\ [][NextPipe]_vars

---------------------------------------------------------------------------
(* The C boundary: the host holds at most one handle, and hands over either *)
(* NULL or that handle.                                                     *)

CPaths == {CNull, CNotUtf8} \cup {CStr(l) : l \in Locations}

\* feature records the host hands to ml_predict
HostFeatureSet == {synthetic_features[1], PredictionFeatures(0, 640, 360, 30, 60, 500)}

InitFfi ==
  /\ obj = Forest(RfNew(0))
  /\ bundle = ModelBundleNew
  /\ disk \in [Locations ->
                 {Absent, Directory, Garbage, JsonFile(to_string_pretty(ModelBundleNew))}]
  /\ handle = NullPtr
  /\ out = NoResult
  /\ last = Start

MlLoadModelStep ==
  \E path \in CPaths :
    /\ handle.null
    /\ handle' = ml_load_model(disk, path)
    /\ last' = [op |-> "ml_load_model", path |-> path]
    /\ UNCHANGED <<obj, bundle, disk, out>>

MlPredictStep ==
  \E model_null \in BOOLEAN, features_null \in BOOLEAN, result_null \in BOOLEAN,
     features \in HostFeatureSet :
    /\ model_null \/ ~handle.null
    /\ last' = [op |-> "ml_predict", model_null |-> model_null,
                features_null |-> features_null, result_null |-> result_null,
                features |-> features,
                status |-> ml_predict_status(model_null, features_null, result_null)]
    /\ out' = IF ml_predict_status(model_null, features_null, result_null) = 0
              THEN [written |-> TRUE, value |-> predict(features, handle.inner)]
              ELSE out
    /\ UNCHANGED <<obj, bundle, disk, handle>>

MlSaveModelStep ==
  \E model_null \in BOOLEAN, path \in CPaths :
    /\ model_null \/ ~handle.null
    /\ IF model_null \/ path.kind = "null"
       THEN /\ last' = [op |-> "ml_save_model", path |-> path, status |-> 0 - 1]
            /\ disk' = disk
       ELSE /\ last' = [op |-> "ml_save_model", path |-> path,
                        status |-> IF save_model_result(disk, handle.inner, path_str(path)) = "Ok"
                                   THEN 0 ELSE 0 - 1]
            /\ disk' = save_model_store(disk, handle.inner, path_str(path))
    /\ UNCHANGED <<obj, bundle, handle, out>>

MlModelFreeStep ==
  /\ handle' = NullPtr
  /\ last' = [op |-> "ml_model_free", was_null |-> handle.null]
  /\ UNCHANGED <<obj, bundle, disk, out>>

NextFfi == MlLoadModelStep \/ MlPredictStep \/ MlSaveModelStep \/ MlModelFreeStep

SpecFfi == InitFfi /\ [][NextFfi]_vars

---------------------------------------------------------------------------
(* Properties *)

ValidFeatures(f) ==
  /\ f.bitrate_kbps >= 0 /\ f.bitrate_kbps # Inf
  /\ f.resolution_width > 0 /\ f.resolution_height > 0 /\ f.frame_rate > 0

\* C1: for every valid feature record and the default bundle, predict returns
\* confidence in [0,1], VMAF in [0,100], cost >= 0, CO2 >= 0 and a recommended
\* bitrate strictly greater than 0.
C1_PredictInRange ==
  (last.op = "predict" /\ bundle = create_default_model /\ ValidFeatures(last.features))
    => /\ last.result.confidence >= 0 /\ last.result.confidence <= ValueUnit
       /\ last.result.predicted_vmaf >= 0 /\ last.result.predicted_vmaf <= 100 * ValueUnit
       /\ last.result.predicted_cost_usd >= 0
       /\ last.result.predicted_co2_kg >= 0
       /\ last.result.recommended_bitrate_kbps > 0

\* C2: a save_model of the bundle to a location that returns Ok, followed at once
\* by load_model of that location, makes load_model return Ok with a bundle equal
\* field for field to the one saved.
C2_RoundTrip ==
  [][(last.op = "save_model" /\ last.result = "Ok"
      /\ last'.op = "load_model" /\ last'.path = last.path)
       => (last'.result.tag = "Ok" /\ last'.result.model = bundle)]_vars

\* C3: load_model of a location that holds nothing returns Ok with the synthetic
\* default bundle, whatever was saved to or loaded from other locations before.
C3_LoadAbsentGivesDefault ==
  [][(last'.op = "load_model" /\ disk[last'.path].kind = "absent")
       => (/\ last'.result.tag = "Ok"
           /\ last'.result.model = create_default_model
           /\ bundle' = create_default_model)]_vars

C3_Witness ==
  /\ last.op = "load_model" /\ disk[last.path].kind = "absent"
  /\ last.result.tag = "Ok"
  /\ \E l \in Locations : disk[l].kind = "json"

\* C4: train with an empty feature sequence or an empty target sequence leaves
\* the model, of either family, as it was.
C4_TrainEmptyIsNoOp ==
  [][(last'.op = "train" /\ (last'.features = <<>> \/ last'.targets = <<>>))
       => obj' = obj]_vars

C4_Witness ==
  /\ last.op = "train" /\ last.features # <<>> /\ last.targets = <<>>
  /\ obj.family = "forest" /\ obj.self.n_trees > 0
  /\ obj.self # RfNew(obj.self.n_trees)

\* C5: train with non-empty feature and target sequences of different lengths
\* leaves the model, of either family, as it was.
C5_TrainMismatchIsNoOp ==
  [][(last'.op = "train" /\ last'.features # <<>> /\ last'.targets # <<>>
      /\ Len(last'.features) # Len(last'.targets))
       => obj' = obj]_vars

\* C6 as claimed: a boosting model with zero correction units predicts exactly
\* its base value, for every feature record and every base value.
C6_ZeroUnitsGiveBase ==
  (last.op = "predict" /\ obj.family = "boosting" /\ obj.self.trees = <<>>)
    => last.result = obj.self.base_prediction

\* C6 as amended: a boosting model with zero correction units predicts its base
\* value clamped at zero: the base when it is not negative, and 0 otherwise.
C6_ZeroUnitsGiveClampedBase ==
  (last.op = "predict" /\ obj.family = "boosting" /\ obj.self.trees = <<>>)
    => last.result = IF obj.self.base_prediction < 0 THEN 0 ELSE obj.self.base_prediction

C6_Witness ==
  /\ last.op = "predict" /\ obj.family = "boosting" /\ obj.self.trees = <<>>
  /\ obj.self.base_prediction < 0 /\ last.result = 0

\* C7: the default bundle's VMAF ensemble and its PSNR ensemble each score an R2 of
\* at least 0.85 against the three synthetic pairs they were trained on.
C7_DefaultR2 ==
  (last.op = "r2_score" /\ bundle = create_default_model) => last.result >= 8500

C7_Witness ==
  /\ last.op = "r2_score" /\ bundle = create_default_model
  /\ last.model = "psnr_model" /\ last.result < 10^4

C9_MlPredict ==
  [][last'.op = "ml_predict"
       => /\ handle' = handle
          /\ (last'.model_null \/ last'.features_null \/ last'.result_null)
               => (last'.status = 0 - 1 /\ out' = out)
          /\ ~(last'.model_null \/ last'.features_null \/ last'.result_null)
               => /\ last'.status = 0
                  /\ out' = [written |-> TRUE,
                             value |-> predict(last'.features, handle.inner)]]_vars

C9_Witness ==
  /\ last.op = "ml_predict" /\ last.status = 0
  /\ ~handle.null /\ out.written
  /\ out.value = predict(last.features, handle.inner)
  /\ handle.inner # create_default_model

\* C10: retrain returns the synthetic default bundle for every input, empty or
\* mismatched sequences included.
C10_RetrainGivesDefault ==
  last.op = "retrain" => bundle = create_default_model

C10_Witness ==
  /\ last.op = "retrain"
  /\ last.features # <<>> /\ last.features # synthetic_features
  /\ Len(last.features) # Len(last.targets_vmaf)
  /\ bundle = create_default_model

\* C11: load_model of a location that holds data fails with the I/O error when the
\* data cannot be read, fails with the parse error when the text does not parse
\* into the bundle (a missing field included), and returns Ok, with the bundle of
\* the document and never the substituted default, only for a well-formed document.
C11_LoadOfDataNeverDefault ==
  [][(last'.op = "load_model" /\ disk[last'.path].kind # "absent")
       => LET file == disk[last'.path]
          IN /\ file.kind \in {"directory", "unreachable"}
                  => last'.result = Err("Failed to read model file")
             /\ (file.kind = "garbage" \/ (file.kind = "json" /\ ~DocParses(file.doc)))
                  => last'.result = Err("Failed to parse model")
             /\ (file.kind = "json" /\ DocParses(file.doc))
                  => last'.result = Ok(from_str(file.doc))]_vars

\* C12: in the bundle's VMAF ensemble and in its PSNR ensemble, after new, train,
\* the default pre-training, retrain, save_model and load_model in any order, the
\* stored count n_trees equals the length of trees.
C12_CountEqualsLength ==
  /\ bundle.vmaf_model.n_trees = Len(bundle.vmaf_model.trees)
  /\ bundle.psnr_model.n_trees = Len(bundle.psnr_model.trees)

\* C13: the confidence predict returns is 0.8, plus 0.1 when frame_drop < 0.01 or
\* minus 0.2 when frame_drop > 0.05, plus 0.05 when the predicted VMAF > 80 or
\* minus 0.1 when it is < 60, clamped to [0, 1].  It is that function of frame_drop
\* and of the predicted VMAF under every bundle, so whatever the predicted cost,
\* CO2 and PSNR are.
C13_Confidence ==
  last.op = "predict"
    => LET fd == last.features.frame_drop
           v == last.result.predicted_vmaf
           raw == (ValueUnit \div 100)
                    * (80 + (IF fd < 10 THEN 10 ELSE IF fd > 50 THEN 0 - 20 ELSE 0)
                          + (IF v > 80 * ValueUnit THEN 5
                             ELSE IF v < 60 * ValueUnit THEN 0 - 10 ELSE 0))
       IN last.result.confidence
            = (IF raw < 0 THEN 0 ELSE IF raw > ValueUnit THEN ValueUnit ELSE raw)

C13_Witness ==
  /\ last.op = "predict" /\ last.features.frame_drop > 50
  /\ last.result.predicted_vmaf < 60 * ValueUnit
  /\ last.result.predicted_cost_usd > 0 /\ last.result.predicted_psnr > 0
  /\ last.result.confidence = 5 * (ValueUnit \div 10)

\* C14: the recommended bitrate, from predict and from recommend_bitrate called on
\* its own, is base = trunc(width * height * frame_rate * 0.07), times 1.3 when
\* the predicted VMAF < 70, times 0.9 when it is > 90 (truncated to a whole
\* number) and base otherwise; two calls of recommend_bitrate in a row that
\* differ only in the cost return the same bitrate.
C14_RecommendedBitrate ==
  [][last'.op \in {"predict", "recommend_bitrate"}
       => LET f == last'.features
              v == IF last'.op = "predict" THEN last'.result.predicted_vmaf
                   ELSE last'.predicted_vmaf
              r == IF last'.op = "predict" THEN last'.result.recommended_bitrate_kbps
                   ELSE last'.result
              p == f.resolution_width * f.resolution_height * f.frame_rate
              base == (p \div 100) * 7 + ((p % 100) * 7) \div 100
          IN /\ r = IF v < 70 * ValueUnit THEN (base * 13) \div 10
                    ELSE IF v > 90 * ValueUnit THEN (base * 9) \div 10
                    ELSE base
             /\ (/\ last.op = "recommend_bitrate" /\ last'.op = "recommend_bitrate"
                 /\ last.features = last'.features
                 /\ last.predicted_vmaf = last'.predicted_vmaf)
                  => last'.result = last.result]_vars

C14_Witness ==
  /\ last.op = "recommend_bitrate" /\ last.cost > 0
  /\ last.predicted_vmaf < 70 * ValueUnit
  /\ last.features.resolution_width = 1920 /\ last.features.frame_rate = 30
  /\ last.result = 5660928

\* C15: a boosting model starts with no correction units; a train with non-empty
\* features and targets keeps the units it had, in place and unchanged, appends
\* exactly five units behind them, each with intercept 0 and every weight but the
\* bitrate's equal to 0, and sets the base to the mean of the targets of this call;
\* a train with an empty input changes nothing.  So the number of units is always
\* 5 times the number of trains with non-empty inputs.
C15_FiveUnitsPerFit ==
  [][(last'.op = "train" /\ obj.family = "boosting")
       => LET old == obj.self.trees
              new == obj'.self.trees
          IN IF last'.features = <<>> \/ last'.targets = <<>>
             THEN obj' = obj
             ELSE /\ Len(old) % 5 = 0
                  /\ Len(new) = Len(old) + 5
                  /\ SubSeq(new, 1, Len(old)) = old
                  /\ \A i \in (Len(old) + 1)..Len(new) :
                       /\ new[i].intercept = 0
                       /\ Len(new[i].weights) = 6
                       /\ \A k \in 2..6 : new[i].weights[k] = 0
                  /\ obj'.self.base_prediction
                       = (SumSeq(last'.targets) * (ValueUnit \div Milli)) \div Len(last'.targets)
                  /\ obj'.self.learning_rate = obj.self.learning_rate]_vars

C15_Witness ==
  /\ last.op = "train" /\ obj.family = "boosting"
  /\ last.features # <<>> /\ last.targets # <<>>
  /\ Len(obj.self.trees) = 10
  /\ obj.self.trees[1].weights[1] # 0
  /\ obj.self.trees[6].weights[1] # 0
  /\ obj.self.trees[6] # obj.self.trees[1]
  /\ obj.self.base_prediction
       = (SumSeq(last.targets) * (ValueUnit \div Milli)) \div Len(last.targets)

\* C16: after a train with non-empty data on an ensemble of N >= 1 trees, the
\* variation factors of the N trees sum to 0.99 * N, and for every feature record
\* the mean of the trees' predictions, before the clamp, is 0.99 times the fitted
\* trend intercept + slope * bitrate - 5 * frame_drop (to within 0.001, the
\* truncation of the fixed-point products), whatever N is; predict returns that
\* mean clamped to [0, 100].
C16_MeanIsTrendTimes99 ==
  [][(/\ last'.op = "train" /\ obj.family = "forest" /\ obj.self.n_trees >= 1
      /\ last'.features # <<>> /\ last'.targets # <<>>)
       => LET N == obj'.self.n_trees
          IN /\ Len(obj'.self.trees) = N
             /\ SumSeq([i \in 1..N |-> Variation(i - 1, N)]) = 99 * N
             /\ \A slope \in {OlsSlope(last'.features, last'.targets, Len(last'.features))},
                   intercept \in {RfIntercept(last'.features, last'.targets)},
                   f \in PredictFeatureSet :
                  \A sum \in {FSumSeq([i \in 1..N |-> TreePred(obj'.self.trees[i], f)])},
                     trend \in {FAdd(intercept,
                                     MulDiv(slope, f.bitrate_kbps, WeightUnit \div ValueUnit)
                                       - 5 * f.frame_drop * (ValueUnit \div Milli))} :
                    IF trend = NaN
                    THEN sum = NaN /\ RfPredict(obj'.self, f) = 0
                    ELSE /\ Abs(sum \div N - MulDiv(trend, 99, 100)) <= ValueUnit \div 1000
                         /\ RfPredict(obj'.self, f)
                              = ClampMin(ClampMax0(sum \div N), 100 * ValueUnit)]_vars

C16_Witness ==
  /\ last.op = "train" /\ obj.family = "forest" /\ obj.self.n_trees = 3
  /\ last.features = synthetic_features /\ last.targets = vmaf_targets
  /\ obj.self.trees[1].intercept < obj.self.trees[2].intercept
  /\ obj.self.trees[2].intercept < obj.self.trees[3].intercept
  /\ RfPredict(obj.self, synthetic_features[2]) > 81 * ValueUnit
  /\ RfPredict(obj.self, synthetic_features[2]) < 82 * ValueUnit

====
